---- MODULE Spec2Model ----
(***************************************************************************)
(* Beam-search decoding of Seq2SeqLMFusion (algorithms/lm_fused_rnn.py):  *)
(* basenet_inference, shallow_fuse_inference and deep_fuse_inference,     *)
(* together with the Decoder / LMDecoder step functions they drive and    *)
(* the constructor checks of Seq2SeqLMFusion.                             *)
(*                                                                         *)
(* Log-probabilities are base-2 logarithms.  A logit vector v stands for  *)
(* the unnormalised weights 2^v[i]; only vectors whose weights add up to  *)
(* a power of two are used, so that log_softmax is exact on integers.     *)
(*                                                                         *)
(* A recurrent state is the record of what produced it: how it was        *)
(* initialised and the tokens fed to the cell since.                      *)
(***************************************************************************)
EXTENDS Integers, Sequences, FiniteSets, TLC

\* ---------------------------------------------------------------- bounds
VocabSize == 4
MaxLogit == 2
MaxBeam == 2
MaxTgt == 2
MaxSrcLen == 2

Vocab == 0 .. (VocabSize - 1)
\* ids a caller wraps the input with (first / last element of src)
SrcToks == {0, VocabSize - 1}
\* inputs: Start is token 0, End is the same token or the last of Vocab
SrcSet == {s \in UNION {[1 .. n -> SrcToks] : n \in 1 .. MaxSrcLen} :
              s[1] = 0}

\* ------------------------------------------------------------ arithmetic
RECURSIVE Pow2(_)
Pow2(n) == IF n <= 0 THEN 1 ELSE 2 * Pow2(n - 1)

RECURSIVE Log2(_)
Log2(n) == IF n <= 1 THEN 0 ELSE 1 + Log2(n \div 2)

IsPow2(n) == n >= 1 /\ Pow2(Log2(n)) = n

RECURSIVE SumExpUpTo(_, _)
SumExpUpTo(v, i) == IF i < 0 THEN 0 ELSE Pow2(v[i]) + SumExpUpTo(v, i - 1)

SumExp(v) == SumExpUpTo(v, VocabSize - 1)

LogitVecs == {v \in [Vocab -> 0 .. MaxLogit] : IsPow2(SumExp(v))}

Monotone(v) ==
    \/ \A i, j \in Vocab : i <= j => v[i] >= v[j]
    \/ \A i, j \in Vocab : i <= j => v[i] <= v[j]

\* parameter sets of the trained decoder
Weights == {v \in LogitVecs : Monotone(v)}

\* logits that halve the weight from one token id to the next
Geometric == [i \in Vocab |->
                 IF VocabSize - 2 - i > 0 THEN VocabSize - 2 - i ELSE 0]

Reversed(v) == [i \in Vocab |-> v[VocabSize - 1 - i]]

\* parameter sets of the trained language model: one that prefers the
\* low token ids and one that prefers the high ones
LMWeights == {v \in Weights : v \in {Geometric, Reversed(Geometric)}}

\* scores taken from the logits as they are, without normalising
LogSoftmaxRaw(v) == v

\* nn.functional.log_softmax(output, dim=1)
LogSoftmax(v) == [i \in Vocab |-> v[i] - Log2(SumExp(v))]

\* -------------------------------------------------------- recurrent state
None == [init |-> "none", fed |-> << >>]

\* hidden handed over from the encoder (pass_enc2dec_hid)
EncHidden == [init |-> "enc", fed |-> << >>]

\* self.dec_rnn(x, hidden) if hidden is not None else self.dec_rnn(x)
dec_rnn(x, hidden) ==
    IF hidden = None
    THEN [init |-> "zero", fed |-> << x >>]
    ELSE [init |-> hidden.init, fed |-> Append(hidden.fed, x)]

Last(s) == s[Len(s)]

\* self.fc(output): the projection to vocabulary logits, a fixed function
\* of the weights, the state after the step and the attended context
fc(w, hidden, ctx) ==
    [i \in Vocab |->
        w[(i + Last(hidden.fed) + Len(hidden.fed)
             + (IF hidden.init = "enc" THEN 1 ELSE 0) + ctx) % VocabSize]]

\* ------------------------------------------------------- layout of a state
\* What nn.GRU / nn.LSTM hand back for a state s: a tensor of axes
\* (layer, batch, hid) for a GRU, the tuple (h_n, c_n) of two such tensors
\* for an LSTM.  A vector along hid is named by the part and the layer it
\* belongs to.
MaxLayers == 2

RnnTypes == {"gru", "lstm"}

\* the cells a Decoder / LMDecoder can be built with
Cells == [rnn_type : RnnTypes, layers : 1 .. MaxLayers]

\* rnn_type and dec_layers of the training script
RunnerCell == [rnn_type |-> "lstm", layers |-> 2]

Vec(part, layer, s) == [part |-> part, layer |-> layer, of |-> s]

Stack(part, n, s) ==
    [kind |-> "tensor", dims |-> << "layer", "batch", "hid" >>,
     data |-> [l \in 1 .. n |-> << Vec(part, l, s) >>]]

HState(cell, s) ==
    IF cell.rnn_type = "lstm"
    THEN [kind |-> "tuple",
          items |-> << Stack("h", cell.layers, s),
                       Stack("c", cell.layers, s) >>]
    ELSE Stack("h", cell.layers, s)

\* x[i] on a Python sequence: from the front for i >= 0, from the back else
PyIdx(x, i) == IF i >= 0 THEN x[i + 1] ELSE x[Len(x) + 1 + i]

\* v[i] on a tuple of tensors or along the first axis of a tensor
Sub(v, i) ==
    IF v.kind = "tuple" THEN PyIdx(v.items, i)
    ELSE [kind |-> "tensor", dims |-> Tail(v.dims),
          data |-> PyIdx(v.data, i)]

\* torch.zeros((self.dec_layers, batch_sz, self.dec_hidden_dim))
Zeros(n) == Stack("zero", n, None)

VARIABLES
    decoder,            \* Decoder object: [use_attention, w, rnn_type, layers]
    lm_decoder,         \* LMDecoder object or absent: [present, w, rnn_type,
                        \* layers]
    pass_enc2dec_hid,
    for_deep_fusion,
    pc,                 \* position in the program
    err,                \* exception raised, "none" otherwise
    mode,               \* which inference method was called
    src,
    beam_width,
    max_tgt_sz,
    heuristics,
    enc_output,
    top_pred_list,
    cur_pred_list,
    t,                  \* loop variable of `for t in range(max_tgt_sz)`
    p_idx,              \* position of `for p_tup in top_pred_list`
    iters,              \* loop bodies started
    enc_calls,          \* invocations of self.encoder
    dec_calls,          \* invocations of self.decoder / decoder.get_hidden
    lm_calls,           \* invocations of lm_decoder.decoding / get_hidden
    result,             \* list handed back to the caller
    probe,              \* outcome of a direct Decoder step call
    log_probs,          \* lm_heuristics: the terms accumulated so far
    dec_input,          \* lm_heuristics: the token fed next
    heur_hidden,        \* lm_heuristics: its dec_hidden, the state of the
                        \* language model
    max_tgt_sz_arg,     \* lm_heuristics: max_tgt_sz as the caller passed it
    calls,              \* inference calls started on this object
    beam_log,           \* top_pred_list after each step of the current call
    prev_log,           \* beam_log of the call before
    prev_result         \* result of the call before

vars == << decoder, lm_decoder, pass_enc2dec_hid, for_deep_fusion, pc, err,
           mode, src, beam_width, max_tgt_sz, heuristics, enc_output,
           top_pred_list, cur_pred_list, t, p_idx, iters, enc_calls,
           dec_calls, lm_calls, result, probe, log_probs, dec_input,
           heur_hidden, max_tgt_sz_arg, calls, beam_log, prev_log, prev_result >>

cfgVars == << decoder, lm_decoder, pass_enc2dec_hid, for_deep_fusion >>
callVars == << mode, src, beam_width, max_tgt_sz, heuristics, enc_output >>
countVars == << enc_calls, dec_calls, lm_calls >>
heurVars == << log_probs, dec_input, heur_hidden, max_tgt_sz_arg >>
logVars == << calls, beam_log, prev_log, prev_result >>

Modes == {"basenet", "shallow", "deep"}

NoProbe == [fn |-> "none", x |-> 0, hidden |-> None, raised |-> FALSE,
            out |-> None, hid_for_att |-> None, rnn_in |-> None]

start_tok == src[1]
end_tok == src[Len(src)]

init_dec_hidden == IF pass_enc2dec_hid THEN EncHidden ELSE None

\* the objects and locals before Seq2SeqLMFusion.__init__ runs, with the
\* decoder and the language model built on one of the given cells
Setup(cells) ==
    /\ decoder \in [use_attention : BOOLEAN, w : Weights,
                    rnn_type : {c.rnn_type : c \in cells},
                    layers : {c.layers : c \in cells}]
    /\ lm_decoder \in
         {[present |-> FALSE, w |-> [i \in Vocab |-> 0],
           rnn_type |-> RunnerCell.rnn_type, layers |-> RunnerCell.layers]}
         \cup [present : {TRUE}, w : LMWeights,
               rnn_type : {c.rnn_type : c \in cells},
               layers : {c.layers : c \in cells}]
    /\ pass_enc2dec_hid \in BOOLEAN
    /\ for_deep_fusion \in BOOLEAN
    /\ pc = "new"
    /\ err = "none"
    /\ mode = "none"
    /\ src = << 0 >>
    /\ beam_width = 0
    /\ max_tgt_sz = 0
    /\ heuristics = FALSE
    /\ enc_output = 0
    /\ top_pred_list = << >>
    /\ cur_pred_list = << >>
    /\ t = 0
    /\ p_idx = 0
    /\ iters = 0
    /\ enc_calls = 0
    /\ dec_calls = 0
    /\ lm_calls = 0
    /\ result = << >>
    /\ probe = NoProbe
    /\ log_probs = << >>
    /\ dec_input = 0
    /\ heur_hidden = None
    /\ max_tgt_sz_arg = 0
    /\ calls = 0
    /\ beam_log = << >>
    /\ prev_log = << >>
    /\ prev_result = << >>

\* the configuration of the training script: LSTM cells of two layers
Init == Setup({RunnerCell})

\* ------------------------------------------------------- step functions
\* self.encoder(src_, src_sz): per-position outputs and final state
Encoder(s) == [output |-> s, hidden |-> EncHidden]

\* Decoder.attention: the context drawn from the encoder outputs
attention(hid_for_att, enc_out) == Len(enc_out)

\* the state as the recurrent cell of d receives it
RnnIn(d, hidden) == IF hidden = None THEN None ELSE HState(d, hidden)

\* an extraction that takes h_n of an LSTM state
HidForAttForwardHn(d, hidden) ==
    IF hidden = None THEN Zeros(d.layers)
    ELSE IF d.rnn_type = "lstm" THEN Sub(HState(d, hidden), 0)
    ELSE HState(d, hidden)

\* hid_for_att of Decoder.forward
HidForAttForward(d, hidden) ==
    IF hidden = None THEN Zeros(d.layers)
    ELSE IF d.rnn_type = "lstm" THEN Sub(HState(d, hidden), 1)
    ELSE HState(d, hidden)

\* hid_for_att of Decoder.get_hidden
HidForAttGetHidden(d, hidden) ==
    IF hidden = None THEN Zeros(d.layers)
    ELSE IF d.rnn_type = "lstm" THEN Sub(HState(d, hidden), 0)
    ELSE HState(d, hidden)

\* Decoder.forward(x, hidden, enc_output)
DecoderForward(x, hidden, enc_out) ==
    IF hidden = None /\ ~decoder.use_attention
    THEN [raised |-> TRUE, output |-> [i \in Vocab |-> 0], hidden |-> None,
          hid_for_att |-> None, rnn_in |-> None]
    ELSE LET hid_for_att == HidForAttForward(decoder, hidden)
             ctx == IF decoder.use_attention
                    THEN attention(hid_for_att, enc_out) ELSE 0
             h == dec_rnn(x, hidden)
         IN  [raised |-> FALSE, output |-> fc(decoder.w, h, ctx),
              hidden |-> h, hid_for_att |-> hid_for_att,
              rnn_in |-> RnnIn(decoder, hidden)]

\* Decoder.get_hidden(x, hidden, enc_output)
DecoderGetHidden(x, hidden, enc_out) ==
    [raised |-> FALSE, output |-> [i \in Vocab |-> 0],
     hidden |-> dec_rnn(x, hidden),
     hid_for_att |-> HidForAttGetHidden(decoder, hidden),
     rnn_in |-> RnnIn(decoder, hidden)]

\* LMDecoder.decoding(x, hidden)
LMDecoding(x, hidden) ==
    LET h == dec_rnn(x, hidden)
    IN  [output |-> fc(lm_decoder.w, h, 0), hidden |-> h]

\* LMDecoder.get_hidden(x, hidden)
LMGetHidden(x, hidden) == dec_rnn(x, hidden)

\* a fusion that drops the language model's term
ShallowOutputDecOnly(dec_output, lm_output) == dec_output

\* shl_output = dec_output + lm_output
ShallowOutput(dec_output, lm_output) ==
    [i \in Vocab |-> dec_output[i] + lm_output[i]]

\* self.dffc(cat(dec_hidden[0][-1], self.lm_ctrl(lm_hidden[0][-1])
\*                                   * lm_hidden[0][-1]))
FusedOutput(dec_hidden, lm_hidden) ==
    LET gated == lm_decoder.w[Last(lm_hidden.fed)]
    IN  fc(decoder.w, dec_hidden, gated)

\* ------------------------------------------------------------ beam helpers
\* torch.topk(output, k, dim=1).indices : the k best entries, best first,
\* equal entries in index order
RECURSIVE TopKFrom(_, _, _)
TopKFrom(v, k, rest) ==
    IF k <= 0 \/ rest = {} THEN << >>
    ELSE LET best == CHOOSE i \in rest : \A j \in rest :
                        v[i] > v[j] \/ (v[i] = v[j] /\ i <= j)
         IN  << best >> \o TopKFrom(v, k - 1, rest \ {best})

\* a selection that returns the best entry k times
TopKRepeated(v, k) == [i \in 1 .. k |-> TopKFrom(v, 1, Vocab)[1]]

TopK(v, k) == TopKFrom(v, k, Vocab)

\* _avg_score(p_tup): the sort key
_avg_score(p_tup) == p_tup.score

\* a sort that puts a later element before earlier ones of equal key
RECURSIVE InsertDescUnstable(_, _)
InsertDescUnstable(sorted, e) ==
    IF sorted = << >> THEN << e >>
    ELSE IF _avg_score(Head(sorted)) > _avg_score(e)
         THEN << Head(sorted) >> \o InsertDescUnstable(Tail(sorted), e)
         ELSE << e >> \o sorted

\* one insertion of list.sort(key=_avg_score, reverse=True): the element
\* goes behind every element whose key is not smaller
RECURSIVE InsertDesc(_, _)
InsertDesc(sorted, e) ==
    IF sorted = << >> THEN << e >>
    ELSE IF _avg_score(Head(sorted)) >= _avg_score(e)
         THEN << Head(sorted) >> \o InsertDesc(Tail(sorted), e)
         ELSE << e >> \o sorted

RECURSIVE SortFrom(_, _)
SortFrom(sorted, rest) ==
    IF rest = << >> THEN sorted
    ELSE SortFrom(InsertDesc(sorted, Head(rest)), Tail(rest))

\* cur_pred_list.sort(key = _avg_score, reverse = True)
SortDesc(list) == SortFrom(<< >>, list)

\* a slice that keeps the whole list
TruncateKeepAll(list, k) == list

\* cur_pred_list[:beam_width]
Truncate(list, k) ==
    IF k >= 0
    THEN SubSeq(list, 1, IF k < Len(list) THEN k ELSE Len(list))
    ELSE SubSeq(list, 1, Len(list) + k)

\* an end test that never recognises the end token
EndedNever(p_tup) == FALSE

\* an end test that only looks at a one-token sequence
EndedOnlyAtStart(p_tup) ==
    Len(p_tup.seq) = 1 /\ p_tup.seq[1] = src[Len(src)]

\* if p_tup[1][-1] == end_tok
Ended(p_tup) == Last(p_tup.seq) = end_tok

RECURSIVE SumFlags(_)
SumFlags(list) ==
    IF list = << >> THEN 0
    ELSE (IF Ended(Head(list)) THEN 1 ELSE 0) + SumFlags(Tail(list))

\* an end test that counts every kept hypothesis
EndFlagsCountAll(list) == Len(list)

\* an end test that reports a full count as soon as every kept hypothesis
\* has ended
EndFlagsAllOrNone(list) ==
    IF SumFlags(list) = Len(list) THEN beam_width ELSE 0

\* end_flags_ = [1 if t[1][-1] == end_tok else 0 for t in top_pred_list]
EndFlagsSum(list) == SumFlags(list)

\* candidates that forget the score of the hypothesis they extend
NewCandsNoParent(p_tup, output, k, states) ==
    LET idx == TopK(output, k)
    IN  [i \in 1 .. Len(idx) |->
            [score |-> output[idx[i]],
             seq |-> Append(p_tup.seq, idx[i])] @@ states]

\* candidates that grow by two tokens in one step
NewCandsTwoTokens(p_tup, output, k, states) ==
    LET idx == TopK(output, k)
    IN  [i \in 1 .. Len(idx) |->
            [score |-> p_tup.score + output[idx[i]],
             seq |-> Append(Append(p_tup.seq, idx[i]), idx[i])] @@ states]

\* candidates that keep the recurrent state(s) their parent came with
NewCandsStaleState(p_tup, output, k, states) ==
    LET idx == TopK(output, k)
    IN  [i \in 1 .. Len(idx) |->
            [score |-> p_tup.score + output[idx[i]],
             seq |-> Append(p_tup.seq, idx[i])]
            @@ [f \in DOMAIN states |-> p_tup[f]]]

\* the tuples appended for one expanded hypothesis
NewCands(p_tup, output, k, states) ==
    LET idx == TopK(output, k)
    IN  [i \in 1 .. Len(idx) |->
            [score |-> p_tup.score + output[idx[i]],
             seq |-> Append(p_tup.seq, idx[i])] @@ states]

\* Seq2SeqLMFusion.__init__
Construct ==
    /\ pc = "new"
    /\ IF ~(pass_enc2dec_hid \/ decoder.use_attention)
       THEN pc' = "failed" /\ err' = "AssertionError"
       ELSE IF for_deep_fusion /\ ~lm_decoder.present
       THEN pc' = "failed" /\ err' = "AttributeError"
       ELSE pc' = "ready" /\ err' = "none"
    /\ UNCHANGED << cfgVars, callVars, countVars, top_pred_list,
                    cur_pred_list, t, p_idx, iters, result, probe, heurVars,
                    logVars >>

\* a direct call of Decoder.forward on the constructed decoder
ProbeForward ==
    /\ pc = "new"
    /\ \E x \in Vocab, hidden \in {None, EncHidden} :
         LET r == DecoderForward(x, hidden, << x >>)
         IN  probe' = [fn |-> "forward", x |-> x, hidden |-> hidden,
                       raised |-> r.raised, out |-> r.hidden,
                       hid_for_att |-> r.hid_for_att, rnn_in |-> r.rnn_in]
    /\ pc' = "probed"
    /\ UNCHANGED << cfgVars, callVars, countVars, err, top_pred_list,
                    cur_pred_list, t, p_idx, iters, result, heurVars,
                    logVars >>

\* a direct call of Decoder.get_hidden on the constructed decoder
ProbeGetHidden ==
    /\ pc = "new"
    /\ \E x \in Vocab, hidden \in {None, EncHidden} :
         LET r == DecoderGetHidden(x, hidden, << x >>)
         IN  probe' = [fn |-> "get_hidden", x |-> x, hidden |-> hidden,
                       raised |-> r.raised, out |-> r.hidden,
                       hid_for_att |-> r.hid_for_att, rnn_in |-> r.rnn_in]
    /\ pc' = "probed"
    /\ UNCHANGED << cfgVars, callVars, countVars, err, top_pred_list,
                    cur_pred_list, t, p_idx, iters, result, heurVars,
                    logVars >>

\* a first hypothesis that takes over the best score of the beam left
\* behind by the call before
InitTupleStale(m, s) ==
    LET score == IF top_pred_list = << >> THEN 0
                 ELSE top_pred_list[1].score
    IN  IF m = "basenet"
        THEN [score |-> score, seq |-> << s[1] >>,
              dec_hidden |-> init_dec_hidden]
        ELSE [score |-> score, seq |-> << s[1] >>,
              dec_hidden |-> init_dec_hidden, lm_hidden |-> None]

\* top_pred_list = [ (0, start_tok.unsqueeze(0), init_dec_hidden[, None]) ]
InitTuple(m, s) ==
    IF m = "basenet"
    THEN [score |-> 0, seq |-> << s[1] >>, dec_hidden |-> init_dec_hidden]
    ELSE [score |-> 0, seq |-> << s[1] >>, dec_hidden |-> init_dec_hidden,
          lm_hidden |-> None]

\* entry of basenet_inference / shallow_fuse_inference / deep_fuse_inference
\* up to the head of the step loop
Call ==
    /\ pc = "ready"
    /\ \E m \in Modes, s \in SrcSet, bw \in 0 .. MaxBeam, mx \in 0 .. MaxTgt,
          h \in BOOLEAN :
         /\ h => m = "basenet"
         /\ mode' = m
         /\ src' = s
         /\ beam_width' = bw
         /\ max_tgt_sz' = mx
         /\ heuristics' = h
         /\ IF m = "shallow" /\ ~lm_decoder.present
            THEN /\ pc' = "raised"
                 /\ err' = "AssertionError"
                 /\ UNCHANGED << enc_output, enc_calls, top_pred_list >>
            ELSE /\ pc' = "for"
                 /\ err' = "none"
                 /\ enc_output' = Encoder(s).output
                 /\ enc_calls' = enc_calls + 1
                 /\ top_pred_list' = << InitTuple(m, s) >>
    /\ t' = 0
    /\ calls' = calls + 1
    /\ beam_log' = << >>
    /\ UNCHANGED << cfgVars, dec_calls, lm_calls, cur_pred_list, p_idx,
                    iters, result, probe, heurVars, prev_log, prev_result >>

\* for t in range(max_tgt_sz): cur_pred_list = []
StepBegin ==
    /\ pc = "for"
    /\ t < max_tgt_sz
    /\ cur_pred_list' = << >>
    /\ p_idx' = 1
    /\ iters' = iters + 1
    /\ pc' = "inner"
    /\ UNCHANGED << cfgVars, callVars, countVars, err, top_pred_list, t,
                    result, probe, heurVars, logVars >>

NoOutput == [i \in Vocab |-> 0]

\* the body of `for p_tup in top_pred_list` for a hypothesis that does not
\* end in end_tok, up to the log-softmaxed distribution handed to topk
StepOutcome(p_tup) ==
    LET x == Last(p_tup.seq) IN
    IF mode = "basenet" THEN
        LET r == DecoderForward(x, p_tup.dec_hidden, enc_output) IN
        IF r.raised
        THEN [err |-> "Exception", dec |-> 0, lm |-> 0,
              output |-> NoOutput, states |-> << >>]
        ELSE [err |-> "none", dec |-> 1, lm |-> 0,
              output |-> LogSoftmax(r.output),
              states |-> [dec_hidden |-> r.hidden]]
    ELSE IF mode = "shallow" THEN
        LET r == DecoderForward(x, p_tup.dec_hidden, enc_output) IN
        IF r.raised
        THEN [err |-> "Exception", dec |-> 0, lm |-> 0,
              output |-> NoOutput, states |-> << >>]
        ELSE LET l == LMDecoding(x, p_tup.lm_hidden)
             IN  [err |-> "none", dec |-> 1, lm |-> 1,
                  output |-> ShallowOutput(LogSoftmax(r.output),
                                           LogSoftmax(l.output)),
                  states |-> [dec_hidden |-> r.hidden,
                              lm_hidden |-> l.hidden]]
    ELSE
        LET r == DecoderGetHidden(x, p_tup.dec_hidden, enc_output) IN
        IF ~lm_decoder.present
        THEN [err |-> "AttributeError", dec |-> 1, lm |-> 0,
              output |-> NoOutput, states |-> << >>]
        ELSE IF ~for_deep_fusion
        THEN [err |-> "AttributeError", dec |-> 1, lm |-> 1,
              output |-> NoOutput, states |-> << >>]
        ELSE LET lh == LMGetHidden(x, p_tup.lm_hidden)
             IN  [err |-> "none", dec |-> 1, lm |-> 1,
                  output |-> LogSoftmax(FusedOutput(r.hidden, lh)),
                  states |-> [dec_hidden |-> r.hidden, lm_hidden |-> lh]]

\* one pass of `for p_tup in top_pred_list`
Expand ==
    /\ pc = "inner"
    /\ p_idx <= Len(top_pred_list)
    /\ LET p_tup == top_pred_list[p_idx] IN
       IF Ended(p_tup)
       THEN /\ cur_pred_list' = Append(cur_pred_list, p_tup)
            /\ p_idx' = p_idx + 1
            /\ UNCHANGED << pc, err, countVars >>
       ELSE LET o == StepOutcome(p_tup) IN
            /\ dec_calls' = dec_calls + o.dec
            /\ lm_calls' = lm_calls + o.lm
            /\ UNCHANGED enc_calls
            /\ IF o.err # "none"
               THEN /\ pc' = "raised"
                    /\ err' = o.err
                    /\ UNCHANGED << cur_pred_list, p_idx >>
               ELSE IF beam_width < 0 \/ beam_width > VocabSize
               THEN /\ pc' = "raised"
                    /\ err' = "RuntimeError"
                    /\ UNCHANGED << cur_pred_list, p_idx >>
               ELSE /\ cur_pred_list' = cur_pred_list \o
                          NewCands(p_tup, o.output, beam_width, o.states)
                    /\ p_idx' = p_idx + 1
                    /\ UNCHANGED << pc, err >>
    /\ UNCHANGED << cfgVars, callVars, top_pred_list, t, iters, result,
                    probe, heurVars, logVars >>

\* sort, truncate and the end-token test that closes one step
Prune ==
    /\ pc = "inner"
    /\ p_idx > Len(top_pred_list)
    /\ cur_pred_list' = SortDesc(cur_pred_list)
    /\ top_pred_list' = Truncate(cur_pred_list', beam_width)
    /\ IF beam_width = EndFlagsSum(top_pred_list')
       THEN pc' = "break" /\ t' = t
       ELSE pc' = "for" /\ t' = t + 1
    /\ beam_log' = Append(beam_log, top_pred_list')
    /\ UNCHANGED << cfgVars, callVars, countVars, err, p_idx, iters,
                    result, probe, heurVars, calls, prev_log, prev_result >>

\* pred_tnsr_list = [t[1] for t in top_pred_list ]
pred_tnsr_list == [i \in 1 .. Len(top_pred_list) |->
                      [seq |-> top_pred_list[i].seq]]

\* the return statements after the step loop
Return ==
    /\ \/ pc = "break"
       \/ pc = "for" /\ t >= max_tgt_sz
    /\ result' = IF heuristics THEN top_pred_list ELSE pred_tnsr_list
    /\ pc' = "done"
    /\ UNCHANGED << cfgVars, callVars, countVars, err, top_pred_list,
                    cur_pred_list, t, p_idx, iters, probe, heurVars,
                    logVars >>

Next ==
    \/ Construct
    \/ ProbeForward
    \/ ProbeGetHidden
    \/ Call
    \/ StepBegin
    \/ Expand
    \/ Prune
    \/ Return

InDecode == pc \in {"for", "inner", "break", "done"}

AllEnded(list) == \A i \in 1 .. Len(list) : Ended(list[i])

Spec == Init /\ [][Next]_vars

\* ------------------------------------------------------- lm_heuristics
\* sequences handed to lm_heuristics: any tokens, up to two more than a
\* bare (Start, End) pair
HeurSeqs == UNION {[1 .. n -> Vocab] : n \in 1 .. MaxSrcLen + 2}

RECURSIVE Sum(_)
Sum(list) == IF list = << >> THEN 0 ELSE Head(list) + Sum(Tail(list))

\* a score that is the plain total of the terms
MeanAsSum(list) == [num |-> Sum(list), den |-> 1]

\* sum(log_probs) / len(log_probs), kept as the fraction num / den
Mean(list) == [num |-> Sum(list), den |-> Len(list)]

\* a loop that never leaves early
HeurBreaksNever(tok) == FALSE

\* if torch.eq(dec_input, end_tok): break
HeurBreaks(tok) == tok = end_tok

\* a loop bound that is the caller's argument
LoopBoundFromArg(s, arg) == arg

\* max_tgt_sz = len(src): the argument is overwritten
LoopBound(s, arg) == Len(s)

\* entry of lm_heuristics up to the head of its loop
HeurCall ==
    /\ pc = "ready"
    /\ \E s \in HeurSeqs, arg \in 0 .. MaxTgt :
         /\ src' = s
         /\ max_tgt_sz_arg' = arg
         /\ max_tgt_sz' = LoopBound(s, arg)
         /\ dec_input' = s[1]
    /\ log_probs' = << >>
    /\ heur_hidden' = None
    /\ t' = 1
    /\ mode' = "lm_heuristics"
    /\ pc' = "lm_for"
    /\ UNCHANGED << cfgVars, countVars, err, beam_width, heuristics,
                    enc_output, top_pred_list, cur_pred_list, p_idx, iters,
                    result, probe, logVars >>

\* one pass of `for t in range(1, max_tgt_sz)`; src[t] of the code is
\* src[t + 1] here
HeurStep ==
    /\ pc = "lm_for"
    /\ t < max_tgt_sz
    /\ IF ~lm_decoder.present
       THEN /\ pc' = "raised"
            /\ err' = "AttributeError"
            /\ UNCHANGED << heurVars, t, lm_calls >>
       ELSE LET l == LMDecoding(dec_input, heur_hidden)
                dec_output == LogSoftmax(l.output)
            IN  /\ log_probs' = Append(log_probs, dec_output[src[t + 1]])
                /\ heur_hidden' = l.hidden
                /\ dec_input' = src[t + 1]
                /\ lm_calls' = lm_calls + 1
                /\ IF HeurBreaks(src[t + 1])
                   THEN pc' = "lm_break" /\ t' = t
                   ELSE pc' = "lm_for" /\ t' = t + 1
                /\ err' = "none"
                /\ UNCHANGED max_tgt_sz_arg
    /\ UNCHANGED << cfgVars, callVars, enc_calls, dec_calls, top_pred_list,
                    cur_pred_list, p_idx, iters, result, probe, logVars >>

\* prob = sum(log_probs) / len(log_probs); return prob
HeurReturn ==
    /\ \/ pc = "lm_break"
       \/ pc = "lm_for" /\ t >= max_tgt_sz
    /\ IF Len(log_probs) = 0
       THEN /\ pc' = "raised"
            /\ err' = "ZeroDivisionError"
            /\ UNCHANGED result
       ELSE /\ pc' = "lm_done"
            /\ err' = "none"
            /\ result' = Mean(log_probs)
    /\ UNCHANGED << cfgVars, callVars, countVars, top_pred_list,
                    cur_pred_list, t, p_idx, iters, probe, heurVars,
                    logVars >>

\* an object whose decoder is fixed; the language model varies
InitLM ==
    /\ Init
    /\ decoder.use_attention
    /\ decoder.w = Geometric
    /\ pass_enc2dec_hid

NextLM ==
    \/ Construct
    \/ HeurCall
    \/ HeurStep
    \/ HeurReturn

SpecLM == InitLM /\ [][NextLM]_vars

\* ------------------------------------------------------------------ C1
\* C1: for beam_width >= 1, in every fusion mode, the beam never holds
\* more than beam_width hypotheses, the returned list has at most
\* beam_width entries and every returned sequence begins with Start.
C1_BeamBounded ==
    (InDecode /\ beam_width >= 1) =>
        /\ Len(top_pred_list) <= beam_width
        /\ \A i \in 1 .. Len(top_pred_list) :
              top_pred_list[i].seq[1] = start_tok
        /\ pc = "done" =>
              /\ Len(result) <= beam_width
              /\ \A i \in 1 .. Len(result) : result[i].seq[1] = start_tok

\* a call that returned a full beam after candidates had to be discarded
C1_Witness ==
    /\ pc = "done"
    /\ beam_width >= 2
    /\ Len(result) = beam_width
    /\ Len(cur_pred_list) > beam_width
    /\ mode = "deep"

\* ------------------------------------------------------------------ C2
IndexIn(list, e) == CHOOSE i \in 1 .. Len(list) : list[i] = e

Occurs(list, e) == \E i \in 1 .. Len(list) : list[i] = e

\* kept is what a stable descending sort of cands followed by a cut at k
\* leaves: stated on positions in cands, without sorting anything
StableTopK(cands, kept, k) ==
    /\ Len(kept) = (IF k < Len(cands) THEN k ELSE Len(cands))
    /\ \A j \in 1 .. Len(kept) : Occurs(cands, kept[j])
    /\ \A i, j \in 1 .. Len(kept) :
          i < j =>
             \/ kept[i].score > kept[j].score
             \/ /\ kept[i].score = kept[j].score
                /\ IndexIn(cands, kept[i]) < IndexIn(cands, kept[j])
    /\ \A d \in 1 .. Len(cands) :
          ~Occurs(kept, cands[d]) =>
             \A j \in 1 .. Len(kept) :
                \/ cands[d].score < kept[j].score
                \/ /\ cands[d].score = kept[j].score
                   /\ IndexIn(cands, kept[j]) < d

\* C2: the beam kept by a step is the first beam_width elements of the
\* merged candidate list in descending score order, equal scores in
\* insertion order; no discarded candidate beats a kept one, and the
\* returned list is in that same best-first order.
C2_StablePrune ==
    [][ /\ (pc = "inner" /\ pc' \in {"for", "break"}) =>
              StableTopK(cur_pred_list, top_pred_list', beam_width)
        /\ (pc # "done" /\ pc' = "done") =>
              /\ Len(result') = Len(top_pred_list)
              /\ \A i \in 1 .. Len(result') :
                    result'[i].seq = top_pred_list[i].seq
              /\ \A i, j \in 1 .. Len(top_pred_list) :
                    i < j => top_pred_list[i].score >= top_pred_list[j].score
      ]_vars

\* a step that cut the sorted candidates between two of equal score
C2_Witness ==
    /\ pc \in {"for", "break"}
    /\ beam_width >= 1
    /\ iters >= 2
    /\ Len(cur_pred_list) > beam_width
    /\ cur_pred_list[beam_width].score = cur_pred_list[beam_width + 1].score
    /\ \E i \in 1 .. Len(top_pred_list) : Ended(top_pred_list[i])

\* ------------------------------------------------------------------ C3
\* C3: the search stops at the end of the first step after which every
\* kept hypothesis ends in End: for any beam_width >= 1 no further step
\* iteration is started on a beam whose hypotheses all end in End.
C3_StopsWhenAllEnded ==
    (pc = "inner" /\ iters >= 2 /\ beam_width >= 1) =>
        ~AllEnded(top_pred_list)

\* ------------------------------------------------------------------ C4
Running == pc \in {"for", "inner", "break"}

\* what is left of the two loops: whole iterations of the step loop, then
\* the passes of the inner loop of the current one
Rank ==
    LET width == (IF beam_width > 1 THEN beam_width ELSE 1) + 3 IN
    IF pc = "for" THEN (max_tgt_sz - t) * width + 1
    ELSE IF pc = "inner" THEN (max_tgt_sz - t) * width - p_idx
    ELSE IF pc = "break" THEN 1
    ELSE 0

\* C4: a decode call runs at most max_tgt_sz step iterations and ends
\* (every step it takes before it has returned or raised lowers a rank
\* that stays positive until then); when it returns, every kept
\* hypothesis ends in End or exactly max_tgt_sz iterations were run.
C4_Terminates ==
    /\ [](InDecode => iters <= max_tgt_sz)
    /\ [](Running => Rank >= 1)
    /\ [][Running => Rank' < Rank]_vars
    /\ [](pc = "done" => (AllEnded(top_pred_list) \/ iters = max_tgt_sz))

\* a call that left the loop early, and one that ran out of iterations
\* with a live hypothesis still in the beam
C4_Witness ==
    /\ pc = "done"
    /\ max_tgt_sz >= 2
    /\ \/ iters < max_tgt_sz /\ AllEnded(top_pred_list) /\ beam_width = 2
       \/ iters = max_tgt_sz /\ ~AllEnded(top_pred_list) /\ beam_width = 1

\* ------------------------------------------------------------------ C5
\* the cumulative score recomputed by feeding the sequence, token by
\* token, through the step functions from the initial tuple
RECURSIVE ReplayFrom(_, _)
ReplayFrom(tup, rest) ==
    IF rest = << >> THEN tup.score
    ELSE LET o == StepOutcome(tup)
         IN  ReplayFrom([score |-> tup.score + o.output[Head(rest)],
                         seq |-> Append(tup.seq, Head(rest))] @@ o.states,
                        Tail(rest))

ScoreIsPlainSum(list) ==
    \A i \in 1 .. Len(list) :
        list[i].score = ReplayFrom(InitTuple(mode, src), Tail(list[i].seq))

\* the tuples one pass of the inner loop appended for p_tup are one per
\* each of the k best entries of output
ExpandedTopK(p_tup, output, k, new) ==
    LET tok(i) == Last(new[i].seq) IN
    /\ Len(new) = k
    /\ \A i \in 1 .. Len(new) :
          /\ new[i].seq = Append(p_tup.seq, tok(i))
          /\ new[i].score = p_tup.score + output[tok(i)]
          /\ \A j \in 1 .. Len(new) : i # j => tok(i) # tok(j)
          /\ \A v \in Vocab :
                (\A j \in 1 .. Len(new) : tok(j) # v) =>
                    output[v] <= output[tok(i)]

\* a pass of the inner loop over a hypothesis that does not end in End
ExpandsLive ==
    /\ pc = "inner"
    /\ p_idx <= Len(top_pred_list)
    /\ ~Ended(top_pred_list[p_idx])
    /\ p_idx' = p_idx + 1

\* C5: a hypothesis not ending in End is expanded into exactly beam_width
\* candidates, one per each of the beam_width best entries of its
\* log-softmaxed distribution, with score = parent score + log-probability
\* and sequence = parent sequence + [token]; hence every score in the beam
\* is the plain sum of the per-step log-probabilities of its tokens.
C5_SummedScores ==
    /\ [](InDecode => /\ ScoreIsPlainSum(top_pred_list)
                      /\ pc = "inner" => ScoreIsPlainSum(cur_pred_list))
    /\ [][ExpandsLive =>
            ExpandedTopK(top_pred_list[p_idx],
                         StepOutcome(top_pred_list[p_idx]).output,
                         beam_width,
                         SubSeq(cur_pred_list', Len(cur_pred_list) + 1,
                                Len(cur_pred_list')))]_vars

\* a kept hypothesis three tokens long whose two steps cost differently
C5_Witness ==
    /\ pc = "for"
    /\ beam_width = 2
    /\ \E i \in 1 .. Len(top_pred_list) :
          LET h == top_pred_list[i] IN
          /\ Len(h.seq) = 3
          /\ h.score < -3
          /\ h.score # 2 * ReplayFrom(InitTuple(mode, src), << h.seq[2] >>)

\* ------------------------------------------------------------------ C6
\* C6: in shallow fusion the per-token score that selects the top-k and
\* is added to the hypothesis score is log_softmax(decoder logits)[token]
\* + log_softmax(LM logits)[token], for every vocabulary token.
C6_ShallowScore ==
    [][(ExpandsLive /\ mode = "shallow") =>
         LET p_tup == top_pred_list[p_idx]
             x == Last(p_tup.seq)
             d == LogSoftmax(DecoderForward(x, p_tup.dec_hidden,
                                            enc_output).output)
             l == LogSoftmax(LMDecoding(x, p_tup.lm_hidden).output)
             fused == [v \in Vocab |-> d[v] + l[v]]
         IN  ExpandedTopK(p_tup, fused, beam_width,
                          SubSeq(cur_pred_list', Len(cur_pred_list) + 1,
                                 Len(cur_pred_list')))]_vars

Uniform(v) == \A i, j \in Vocab : v[i] = v[j]

\* shallow candidates produced where decoder and LM disagree on the best
\* token
C6_Witness ==
    /\ pc = "inner"
    /\ mode = "shallow"
    /\ beam_width >= 1
    /\ Len(cur_pred_list) >= beam_width
    /\ ~Uniform(decoder.w)
    /\ ~Uniform(lm_decoder.w)
    /\ decoder.w # lm_decoder.w
    /\ iters >= 2

\* ------------------------------------------------------------------ C7
\* C7 as stated: for an input made of Start and End only, no decoder step
\* is performed and the result is the one-token sequence.
C7_StartEndOnly ==
    (InDecode /\ Len(src) = 2) =>
        /\ dec_calls = 0
        /\ pc = "done" => /\ Len(result) = 1
                          /\ result[1].seq = << start_tok >>

\* C7 amended: for an input whose first and last token are the same
\* (Start = End, as in a one-token input) no DecoderStep or LMStep is
\* performed, and with beam_width >= 1 the result is the one-token
\* sequence [Start].
C7_StartIsEnd ==
    (InDecode /\ start_tok = end_tok) =>
        /\ dec_calls = 0
        /\ lm_calls = 0
        /\ (pc = "done" /\ beam_width >= 1) =>
              /\ Len(result) = 1
              /\ result[1].seq = << start_tok >>

\* a returned call on such an input that went through two iterations
C7_Witness ==
    /\ pc = "done"
    /\ start_tok = end_tok
    /\ beam_width = 2
    /\ iters = 2
    /\ Len(result) = 1

\* ------------------------------------------------------------------ C8
\* C8: a decode call with beam_width < 1 or max_tgt_sz < 1 does not
\* return, and every call that returns hands back a non-empty list.
C8_RejectsBadConfig ==
    pc = "done" =>
        /\ beam_width >= 1
        /\ max_tgt_sz >= 1
        /\ Len(result) >= 1

\* ------------------------------------------------------------------ C9
\* C9: a Shallow or Deep decode requested without an LM fails before the
\* encoder or any decoder step has run, and returns nothing.
C9_FusionNeedsLM ==
    (mode \in {"shallow", "deep"} /\ ~lm_decoder.present) =>
        /\ enc_calls = 0
        /\ dec_calls = 0
        /\ pc # "done"

\* ----------------------------------------------------------------- C10
\* C10: a decoder step with attention disabled and no recurrent state
\* raises, in Decoder.forward and in Decoder.get_hidden alike, and a
\* Seq2SeqLMFusion with attention disabled and no encoder-to-decoder state
\* passing is never constructed.
C10_NoConditioningRaises ==
    /\ (pc = "probed" /\ probe.hidden = None /\ ~decoder.use_attention) =>
           probe.raised
    /\ pc = "ready" => (pass_enc2dec_hid \/ decoder.use_attention)

\* ------------------------------------------------------ a repeated call
\* the same inference method called once more on the same object with the
\* same src, beam_width and max_tgt_sz, after the first call has returned
Recall ==
    /\ pc = "done"
    /\ calls = 1
    /\ prev_log' = beam_log
    /\ prev_result' = result
    /\ calls' = calls + 1
    /\ beam_log' = << >>
    /\ enc_output' = Encoder(src).output
    /\ enc_calls' = enc_calls + 1
    /\ top_pred_list' = << InitTuple(mode, src) >>
    /\ t' = 0
    /\ iters' = 0
    /\ pc' = "for"
    /\ UNCHANGED << cfgVars, mode, src, beam_width, max_tgt_sz, heuristics,
                    dec_calls, lm_calls, err, cur_pred_list, p_idx, result,
                    probe, heurVars >>

\* an object built with attention and the encoder's state handed over
InitTwice ==
    /\ Init
    /\ decoder.use_attention
    /\ pass_enc2dec_hid

NextTwice ==
    \/ Next
    \/ Recall

SpecTwice == InitTwice /\ [][NextTwice]_vars

\* ------------------------------------------------- the cell variants
\* lm_hidden[0][-1] / dec_hidden[0][-1]: the part of a state that deep
\* fusion feeds to lm_ctrl and dffc
DeepPart(cell, hidden) == Sub(Sub(HState(cell, hidden), 0), 0 - 1)

\* the first pass of deep_fuse_inference's inner loop up to the fused
\* input, on an object built for deep fusion
ProbeDeepFuse ==
    /\ pc = "ready"
    /\ for_deep_fusion
    /\ lm_decoder.present
    /\ \E x \in Vocab :
         LET dh == DecoderGetHidden(x, init_dec_hidden, << x >>).hidden
             lh == LMGetHidden(x, None)
         IN  probe' = [fn |-> "deep_fuse", x |-> x,
                       hidden |-> init_dec_hidden, raised |-> FALSE,
                       out |-> dh, lm_out |-> lh,
                       dec_part |-> DeepPart(decoder, dh),
                       lm_part |-> DeepPart(lm_decoder, lh)]
    /\ pc' = "probed"
    /\ UNCHANGED << cfgVars, callVars, countVars, err, top_pred_list,
                    cur_pred_list, t, p_idx, iters, result, heurVars,
                    logVars >>

\* decoder and language model built on any of the cells
InitCell == Setup(Cells)

NextCell ==
    \/ Construct
    \/ ProbeForward
    \/ ProbeGetHidden
    \/ ProbeDeepFuse

SpecCell == InitCell /\ [][NextCell]_vars

\* ----------------------------------------------------------------- C11
\* the language model's state after it was fed the first k supplied tokens
RECURSIVE LMReplay(_, _)
LMReplay(s, k) ==
    IF k = 0 THEN None ELSE LMDecoding(s[k], LMReplay(s, k - 1)).hidden

\* log_softmax of the language model's output at step k, at the token
\* that actually follows
Term(s, k) ==
    LogSoftmax(LMDecoding(s[k], LMReplay(s, k - 1)).output)[s[k + 1]]

RECURSIVE TermSum(_, _)
TermSum(s, n) == IF n = 0 THEN 0 ELSE Term(s, n) + TermSum(s, n - 1)

\* C11: the value lm_heuristics returns is the mean of the accumulated
\* terms log_softmax(LM output)[next supplied token], the LM being fed the
\* previous supplied token at each step from Start on: the total of the
\* terms over their number, not the total; when every term is -1 the
\* value is -1.
C11_MeanOfTerms ==
    pc = "lm_done" =>
        LET n == Len(log_probs) IN
        /\ n >= 1
        /\ \A k \in 1 .. n : log_probs[k] = Term(src, k)
        /\ result.den = n
        /\ result.num = TermSum(src, n)
        /\ (\A k \in 1 .. n : Term(src, k) = 0 - 1)
              => result.num = (0 - 1) * result.den

\* (Start, a, End) scored with two terms that are both -1
C11_Witness ==
    /\ pc = "lm_done"
    /\ Len(src) = 3
    /\ src[1] # src[3]
    /\ log_probs = << 0 - 1, 0 - 1 >>
    /\ result.num = (0 - 1) * result.den

\* ----------------------------------------------------------------- C12
IsPrefix(a, b) == Len(a) <= Len(b) /\ a = SubSeq(b, 1, Len(a))

AtEnded ==
    /\ pc = "inner"
    /\ p_idx <= Len(top_pred_list)
    /\ top_pred_list[p_idx].seq[Len(top_pred_list[p_idx].seq)]
          = src[Len(src)]

Copies(list, e) == Cardinality({j \in 1 .. Len(list) : list[j] = e})

Extends(long, short) ==
    Len(long) > Len(short) /\ SubSeq(long, 1, Len(short)) = short

\* C13: in every step a hypothesis whose last token is End is handed to
\* neither the decoder nor the language model and is not extended: it
\* goes into the candidate list once, with score, sequence and
\* recurrent state(s) as they were.
C13_EndedCarried ==
    /\ [][AtEnded =>
            /\ cur_pred_list' = Append(cur_pred_list, top_pred_list[p_idx])
            /\ dec_calls' = dec_calls
            /\ lm_calls' = lm_calls
            /\ enc_calls' = enc_calls
            /\ pc' = "inner"]_vars
    /\ [](pc = "inner" =>
            \A i \in 1 .. Len(top_pred_list) :
               (i < p_idx /\ top_pred_list[i].seq[Len(top_pred_list[i].seq)]
                               = src[Len(src)]) =>
                  /\ Copies(cur_pred_list, top_pred_list[i]) = 1
                  /\ \A j \in 1 .. Len(cur_pred_list) :
                        ~Extends(cur_pred_list[j].seq, top_pred_list[i].seq))

\* a hypothesis that ended in an earlier step has been carried over next
\* to the candidates of a hypothesis that was expanded
C13_Witness ==
    /\ pc = "inner"
    /\ p_idx > Len(top_pred_list)
    /\ Len(top_pred_list) = 2
    /\ src[1] # src[Len(src)]
    /\ \E i \in 1 .. 2 :
          /\ top_pred_list[i].seq[Len(top_pred_list[i].seq)] = src[Len(src)]
          /\ Copies(cur_pred_list, top_pred_list[i]) = 1
    /\ Len(cur_pred_list) = 3
    /\ dec_calls = 2

\* ----------------------------------------------------------------- C14
\* position of the first supplied token after Start that equals End
FirstEnd(s) ==
    CHOOSE k \in 2 .. Len(s) :
        /\ s[k] = s[Len(s)]
        /\ \A j \in 2 .. (k - 1) : s[j] # s[Len(s)]

\* C14: lm_heuristics stops at the first supplied token after Start that
\* equals End: the log-probability of that token is the last term, no
\* later token is fed to the language model or scored, and the mean is
\* taken over exactly the terms up to and including it.
C14_StopsAtFirstEnd ==
    /\ pc = "lm_for" =>
          /\ Len(log_probs) = t - 1
          /\ \A k \in 2 .. t : src[k] # src[Len(src)]
    /\ pc \in {"lm_break", "lm_done"} =>
          LET n == FirstEnd(src) - 1 IN
          /\ Len(src) >= 2
          /\ Len(log_probs) = n
          /\ log_probs[n] = Term(src, n)
          /\ dec_input = src[FirstEnd(src)]
          /\ lm_calls = n
          /\ heur_hidden = LMReplay(src, n)
          /\ pc = "lm_done" => result = [num |-> TermSum(src, n), den |-> n]

\* a sequence with End in the middle: the tokens behind it were left out
C14_Witness ==
    /\ pc = "lm_done"
    /\ src[1] # src[Len(src)]
    /\ FirstEnd(src) = 3
    /\ Len(src) = 4
    /\ result.den = 2
    /\ lm_calls = 2

\* ----------------------------------------------------------------- C15
\* the decoder state after the first k tokens of seq went through the
\* decoder step of the current mode, from the initial state on
RECURSIVE DecReplay(_, _)
DecReplay(seq, k) ==
    IF k = 0 THEN init_dec_hidden
    ELSE IF mode = "deep"
         THEN DecoderGetHidden(seq[k], DecReplay(seq, k - 1),
                               enc_output).hidden
         ELSE DecoderForward(seq[k], DecReplay(seq, k - 1),
                             enc_output).hidden

\* the same for the language model's state
RECURSIVE LMStateReplay(_, _)
LMStateReplay(seq, k) ==
    IF k = 0 THEN None
    ELSE IF mode = "deep"
         THEN LMGetHidden(seq[k], LMStateReplay(seq, k - 1))
         ELSE LMDecoding(seq[k], LMStateReplay(seq, k - 1)).hidden

Replayed(p_tup) ==
    /\ p_tup.dec_hidden = DecReplay(p_tup.seq, Len(p_tup.seq) - 1)
    /\ mode # "basenet" =>
          p_tup.lm_hidden = LMStateReplay(p_tup.seq, Len(p_tup.seq) - 1)

\* C15: in every fusion mode the decoder state of a hypothesis (and its
\* language-model state in shallow and deep fusion) is what replaying the
\* hypothesis's own sequence without its last token through the decoder
\* step (the language-model step) from the initial state gives: a
\* function of that sequence alone, each of the two states of its own
\* step function.
C15_StatesReplay ==
    InDecode =>
        /\ \A i \in 1 .. Len(top_pred_list) : Replayed(top_pred_list[i])
        /\ pc = "inner" =>
              \A i \in 1 .. Len(cur_pred_list) : Replayed(cur_pred_list[i])

\* shallow fusion in its second step: the candidates are children of two
\* different hypotheses, each with a decoder state that started from the
\* encoder's and a language-model state that started from nothing
C15_Witness ==
    /\ pc = "inner"
    /\ mode = "shallow"
    /\ p_idx > Len(top_pred_list)
    /\ Len(cur_pred_list) = 4
    /\ \A i \in 1 .. 4 : Len(cur_pred_list[i].seq) = 3
    /\ cur_pred_list[1].seq[2] # cur_pred_list[3].seq[2]
    /\ cur_pred_list[1].dec_hidden # cur_pred_list[1].lm_hidden
    /\ cur_pred_list[1].dec_hidden # cur_pred_list[3].dec_hidden
    /\ cur_pred_list[1].lm_hidden # cur_pred_list[3].lm_hidden

\* ----------------------------------------------------------------- C16
\* between two steps, or after the last one
StepsDone == pc \in {"for", "break", "done"}

\* C16: after t step iterations of the beam search every hypothesis in
\* the beam has a sequence of t + 1 tokens.
C16_LenIsStepsPlusOne ==
    StepsDone =>
        \A i \in 1 .. Len(top_pred_list) :
           Len(top_pred_list[i].seq) = iters + 1

\* C16 as amended: after t step iterations every hypothesis in the beam
\* has between 1 and t + 1 tokens, one more than the decoder steps taken
\* on it; it has exactly t + 1 unless it ends in End, and a hypothesis
\* that ends in End is carried over with the length it had.
C16_LenBounded ==
    /\ StepsDone =>
          \A i \in 1 .. Len(top_pred_list) :
             LET p_tup == top_pred_list[i] IN
             /\ Len(p_tup.seq) >= 1
             /\ Len(p_tup.seq) <= iters + 1
             /\ Len(p_tup.seq) = Len(p_tup.dec_hidden.fed) + 1
             /\ p_tup.seq[Len(p_tup.seq)] # src[Len(src)]
                   => Len(p_tup.seq) = iters + 1
    /\ pc = "inner" =>
          \A i \in 1 .. Len(cur_pred_list) :
             LET c_tup == cur_pred_list[i] IN
             \/ Len(c_tup.seq) = iters + 1
             \/ /\ Len(c_tup.seq) <= iters
                /\ c_tup.seq[Len(c_tup.seq)] = src[Len(src)]
                /\ \E j \in 1 .. Len(top_pred_list) :
                      top_pred_list[j] = c_tup

\* after two steps the beam holds a hypothesis that ended in the first
\* step next to one that was extended in the second
C16_Witness ==
    /\ pc = "done"
    /\ iters = 2
    /\ src[1] # src[Len(src)]
    /\ Len(top_pred_list) = 2
    /\ \E i, j \in 1 .. 2 :
          /\ Len(top_pred_list[i].seq) = 2
          /\ Len(top_pred_list[j].seq) = 3

\* ----------------------------------------------------------------- C17
\* the vector a tensor of axes (batch, hid) or (hid) holds
VectorOf(tensor) ==
    IF Len(tensor.dims) = 1 THEN tensor.data ELSE tensor.data[1]

\* C17: deep fusion builds its fused input from the last-layer hidden
\* vector of the decoder state and the last-layer hidden vector of the
\* language-model state, for every number of layers and for paired
\* (hidden, cell) as well as single-tensor states.
C17_LastLayerFused ==
    probe.fn = "deep_fuse" =>
        /\ VectorOf(probe.dec_part) = Vec("h", decoder.layers, probe.out)
        /\ VectorOf(probe.lm_part)
              = Vec("h", lm_decoder.layers, probe.lm_out)

\* ----------------------------------------------------------------- C18
\* tensor holds, layer by layer, the named part of state s
IsPartOf(tensor, part, n, s) ==
    /\ tensor.kind = "tensor"
    /\ tensor.dims = << "layer", "batch", "hid" >>
    /\ Len(tensor.data) = n
    /\ \A l \in 1 .. n :
          /\ Len(tensor.data[l]) = 1
          /\ tensor.data[l][1].part = part
          /\ tensor.data[l][1].layer = l
          /\ tensor.data[l][1].of = s

\* C18: for a paired (hidden, cell) state Decoder.forward conditions
\* attention on element 1 of the pair (the cell part) and
\* Decoder.get_hidden on element 0 (the hidden part); for a single-tensor
\* state both use the state as it is, for an absent state both use zeros
\* of dec_layers layers; the recurrent cell always gets the whole state.
C18_AttentionState ==
    (probe.fn \in {"forward", "get_hidden"} /\ ~probe.raised) =>
        LET h == probe.hidden
            a == probe.hid_for_att
            n == decoder.layers
        IN  /\ h = None =>
                  /\ IsPartOf(a, "zero", n, None)
                  /\ probe.rnn_in = None
            /\ (h # None /\ decoder.rnn_type = "lstm") =>
                  /\ probe.fn = "forward" => IsPartOf(a, "c", n, h)
                  /\ probe.fn = "get_hidden" => IsPartOf(a, "h", n, h)
                  /\ probe.rnn_in.kind = "tuple"
                  /\ Len(probe.rnn_in.items) = 2
                  /\ IsPartOf(probe.rnn_in.items[1], "h", n, h)
                  /\ IsPartOf(probe.rnn_in.items[2], "c", n, h)
            /\ (h # None /\ decoder.rnn_type = "gru") =>
                  /\ IsPartOf(a, "h", n, h)
                  /\ a = probe.rnn_in

\* Decoder.forward on a two-layer LSTM decoder with attention and a state
\* handed in: attention saw the cell part
C18_Witness ==
    /\ probe.fn = "forward"
    /\ ~probe.raised
    /\ decoder.use_attention
    /\ decoder.rnn_type = "lstm"
    /\ decoder.layers = 2
    /\ probe.hidden # None
    /\ probe.hid_for_att.data[2][1].part = "c"

\* ----------------------------------------------------------------- C19
\* right after the step that closed iteration `iters`
StepClosed == pc \in {"for", "break"} /\ iters >= 1

EndsInEnd(p_tup) == p_tup.seq[Len(p_tup.seq)] = src[Len(src)]

\* C19: when Start differs from End and the vocabulary has at least
\* beam_width tokens, the beam holds exactly beam_width hypotheses after
\* every step, so that the early-stop test fires exactly when every kept
\* hypothesis ends in End; with fewer than beam_width hypotheses in the
\* beam the test does not fire, even when all of them end in End.
C19_FullBeamStop ==
    StepClosed =>
        /\ (src[1] # src[Len(src)] /\ beam_width <= VocabSize)
              => Len(top_pred_list) = beam_width
        /\ Len(top_pred_list) = beam_width =>
              (pc = "break" <=>
                 \A i \in 1 .. Len(top_pred_list) :
                    EndsInEnd(top_pred_list[i]))
        /\ Len(top_pred_list) < beam_width => pc = "for"

\* a full beam of two hypotheses that ended in different steps stopped
\* the search
C19_Witness ==
    /\ pc = "break"
    /\ iters = 2
    /\ beam_width = 2
    /\ src[1] # src[Len(src)]
    /\ Len(top_pred_list) = 2
    /\ \A i \in 1 .. 2 : EndsInEnd(top_pred_list[i])
    /\ Len(top_pred_list[1].seq) # Len(top_pred_list[2].seq)

\* ----------------------------------------------------------------- C20
DistinctSeqs(list) ==
    \A i, j \in 1 .. Len(list) : i # j => list[i].seq # list[j].seq

\* C20: after every step the token sequences of the hypotheses in the
\* beam are pairwise distinct, and so are those of the candidates the
\* beam is cut from.
C20_DistinctSeqs ==
    InDecode =>
        /\ DistinctSeqs(top_pred_list)
        /\ pc = "inner" => DistinctSeqs(cur_pred_list)

\* the second step's candidates: children of two hypotheses, two of them
\* ending in the same token behind different prefixes
C20_Witness ==
    /\ pc = "inner"
    /\ iters = 2
    /\ p_idx > Len(top_pred_list)
    /\ Len(top_pred_list) = 2
    /\ Len(cur_pred_list) = 4
    /\ \A i \in 1 .. 4 : Len(cur_pred_list[i].seq) = 3
    /\ \E i, j \in 1 .. 4 :
          /\ cur_pred_list[i].seq[3] = cur_pred_list[j].seq[3]
          /\ cur_pred_list[i].seq[2] # cur_pred_list[j].seq[2]

\* ----------------------------------------------------------------- C21
\* c_tup was carried over from the beam or extends a hypothesis of the
\* beam by one token without a higher score
FromParent(c_tup, list) ==
    \E i \in 1 .. Len(list) :
       \/ c_tup = list[i]
       \/ /\ Len(c_tup.seq) = Len(list[i].seq) + 1
          /\ SubSeq(c_tup.seq, 1, Len(list[i].seq)) = list[i].seq
          /\ c_tup.score <= list[i].score

\* C21: every candidate's score is at most its parent's, every score in
\* the beam is at most 0, and the first (best) score of the beam does not
\* go up from one step to the next.
C21_ScoresDecrease ==
    InDecode =>
        /\ \A i \in 1 .. Len(top_pred_list) : top_pred_list[i].score <= 0
        /\ pc = "inner" =>
              \A i \in 1 .. Len(cur_pred_list) :
                 /\ cur_pred_list[i].score <= 0
                 /\ FromParent(cur_pred_list[i], top_pred_list)
        /\ \A k \in 1 .. Len(beam_log) :
              beam_log[k] # << >> =>
                 /\ beam_log[k][1].score <= 0
                 /\ (k > 1 /\ beam_log[k - 1] # << >>) =>
                       beam_log[k][1].score <= beam_log[k - 1][1].score

\* shallow fusion, two steps: the best score went down in each of them
C21_Witness ==
    /\ pc = "done"
    /\ mode = "shallow"
    /\ Len(beam_log) = 2
    /\ beam_log[1] # << >>
    /\ beam_log[2] # << >>
    /\ beam_log[1][1].score < 0
    /\ beam_log[2][1].score < beam_log[1][1].score

\* ----------------------------------------------------------------- C22
\* C22: for a supplied sequence of n >= 2 tokens lm_heuristics
\* accumulates at least 1 and at most n - 1 terms whatever max_tgt_sz the
\* caller passed (the loop runs to the length of the sequence), so the
\* mean is defined; for a sequence of one token no term is accumulated
\* and the call ends in a division by zero instead of returning a score.
C22_TermCount ==
    mode = "lm_heuristics" =>
        LET n == Len(src) IN
        /\ pc \in {"lm_for", "lm_break", "lm_done"} => max_tgt_sz = n
        /\ Len(log_probs) <= n - 1
        /\ (n >= 2 /\ pc \in {"lm_break", "lm_done"})
              => Len(log_probs) >= 1
        /\ (n >= 2 /\ lm_decoder.present) => pc # "raised"
        /\ pc = "lm_done" =>
              /\ n >= 2
              /\ result.den = Len(log_probs)
              /\ result.den >= 1
        /\ (n = 1 /\ pc # "lm_for") =>
              /\ pc = "raised"
              /\ err = "ZeroDivisionError"
              /\ log_probs = << >>
              /\ lm_calls = 0
              /\ result = << >>

\* a sequence of four tokens scored with three terms although the caller
\* passed max_tgt_sz = 0
C22_Witness ==
    /\ pc = "lm_done"
    /\ Len(src) = 4
    /\ max_tgt_sz_arg = 0
    /\ Len(log_probs) = 3
    /\ result.den = 3
====
